---------------------------- MODULE Spec2Model ----------------------------
(***************************************************************************)
(* A model of the unsplash-rs client core:                                 *)
(*   - the request builders of the photos endpoint (List, and the staged   *)
(*     Random / RandomQuery / RandomCollection / RandomCount /             *)
(*     RandomQueryCount / RandomCollectionCount family),                   *)
(*   - the query encoder (ToQuery::to_query),                              *)
(*   - the request dispatcher (endpoint::request and its four              *)
(*     specialisations) with its body accumulation, its two parsers and    *)
(*     the forbidden re-tag.                                               *)
(*                                                                         *)
(* Spec is the builders up to the get that hands the request to the        *)
(* transport and returns the future; SpecDispatch is the dispatcher from   *)
(* a call of get, put, delete or post to the completion of the future.     *)
(*                                                                         *)
(* Text is modelled as a sequence of pieces (strings); the text denoted is *)
(* the concatenation of the pieces.  Caller-supplied strings and response  *)
(* bodies are sequences of single characters.                              *)
(***************************************************************************)
EXTENDS Integers, Sequences, FiniteSets, TLC

VARIABLES
    stage,      \* the type of the builder value the caller holds
    builder,    \* the builder value itself
    panicked,   \* TRUE once an assertion of a builder method has failed
    lastOp,     \* history: the last operation performed, with its argument
    lastSet,    \* history: the last argument given to each setter of Random
    pc,         \* position of the dispatch: start, sent, body, done
    outbound,   \* the request handed to the transport (None before)
    config,     \* the query value handed to the dispatcher (None before)
    schema,     \* the success type R the dispatch decodes to
    sends,      \* history: number of calls of client.request
    status,     \* status code of the response (None before it arrives)
    parser,     \* the parser selected from the status (None before)
    buf,        \* the Vec<u8> accumulated by fold
    chunks,     \* history: the chunks the body stream has delivered so far
    parsed,     \* history: the parser invocations made, with their input
    result      \* the value the future resolves to (None while pending)

vars == <<stage, builder, panicked, lastOp, lastSet, pc, outbound, config,
          schema, sends, status, parser, buf, chunks, parsed, result>>

builderVars == <<stage, builder, panicked, lastSet>>
dispatchVars == <<status, parser, buf, chunks, parsed, result>>

-----------------------------------------------------------------------------
(* Bounds of the model. *)

MaxPage == 2
MaxPerPage == 2
MaxCount == 3
MaxChunks == 3

-----------------------------------------------------------------------------
(* Option<T> *)

None == <<>>
Some(x) == <<x>>
IsSome(o) == o /= None
Unwrap(o) == o[1]

(* itertools join: the elements with the separator between neighbours. *)
RECURSIVE join(_, _)
join(items, sep) ==
    IF items = <<>> THEN <<>>
    ELSE IF Len(items) = 1 THEN Head(items)
    ELSE Head(items) \o sep \o join(Tail(items), sep)

-----------------------------------------------------------------------------
(* Inputs the caller may supply. *)

Bools == {TRUE, FALSE}
Usernames == {<<"b", "o", "b">>}
Widths == {100}
Heights == {50}
Orientations == {"Portrait", "Landscape"}
Orders == {"Latest", "Popular"}
Queries == {<<"c", "a", "t", "s">>}
CollectionLists == {<<<<"1">>, <<"2">>>>}
Pages == 0..MaxPage
PerPages == 0..MaxPerPage
Counts == 0..MaxCount
AccessKeys == {"k1"}

API_URL == "https://api.unsplash.com/"
LIST_URI == <<API_URL, "photos">>
RANDOM_URI == <<API_URL, "photos/random">>

-----------------------------------------------------------------------------
(* The query encoder. *)

(* url::form_urlencoded byte serialisation of one character, as used by    *)
(* serde_url_params for string values.                                     *)
PercentEncodeChar(c) ==
    IF c = "," THEN "%2C"
    ELSE IF c = " " THEN "+"
    ELSE c

PercentEncode(s) == [i \in 1..Len(s) |-> PercentEncodeChar(s[i])]

(* The serialised text of one field value, by the field's type. *)
SerValue(type, v) ==
    CASE type = "bool" -> IF v THEN <<"true">> ELSE <<"false">>
      [] type = "usize" -> <<ToString(v)>>
      [] type = "enum" -> <<v>>
      [] type = "String" -> PercentEncode(v)

(* One field of a Serialize struct: key, type and Option value. *)
Field(key, type, opt) == [key |-> key, type |-> type, opt |-> opt]

(* serde_url_params::to_string over the fields in declaration order: a     *)
(* None field writes nothing, a present one writes key=value, and pairs    *)
(* are separated by an ampersand.                                          *)
PairsOf(fields) ==
    LET present == SelectSeq(fields, LAMBDA f : IsSome(f.opt))
    IN  [i \in 1..Len(present) |->
            <<present[i].key, "=">>
                \o SerValue(present[i].type, Unwrap(present[i].opt))]

to_string(fields) == join(PairsOf(fields), <<"&">>)

(* Mutant of to_query: the separator is written before an empty string. *)
to_query_prefixed(fields) == <<"?">> \o to_string(fields)

to_query(fields) ==
    LET s == to_string(fields)
    IN  IF s = <<>> THEN <<>> ELSE <<"?">> \o s

-----------------------------------------------------------------------------
(* The synchronous part of the request dispatcher: the request is built    *)
(* and handed to the transport, and the future is returned to the caller.  *)

Request_builder(method, uri, auth) ==
    [method  |-> method,
     uri     |-> uri,
     headers |-> << <<"Accept", "application/json">>,
                    <<"Accept-Version", "v1">>,
                    <<"Authorization", auth>> >>,
     body    |-> <<>>]

request(query, auth, uri, method, R) ==
    /\ outbound' = Some(Request_builder(method, uri \o to_query(query), auth))
    /\ config' = Some(query)
    /\ schema' = R
    /\ sends' = sends + 1
    /\ pc' = "sent"

get(query, auth, uri, R) == request(query, auth, uri, "GET", R)
(* Mutant of put: the request is built with the POST method. *)
put_as_post(query, auth, uri, R) == request(query, auth, uri, "POST", R)

put(query, auth, uri, R) == request(query, auth, uri, "PUT", R)
delete(query, auth, uri, R) == request(query, auth, uri, "DELETE", R)
post(query, auth, uri, R) == request(query, auth, uri, "POST", R)

ClientId(access_key) == <<"Client-ID: ", access_key>>

-----------------------------------------------------------------------------
(* The List builder. *)

List_default == [page |-> None, per_page |-> None, order_by |-> None]

ListFields(l) ==
    << Field("page", "usize", l.page),
       Field("per_page", "usize", l.per_page),
       Field("order_by", "enum", l.order_by) >>

(* An entry of the history variable lastOp. *)
Op(name, arg) == [name |-> name, arg |-> arg]

(* A failed assertion unwinds the caller: nothing is returned. *)
Panic ==
    /\ panicked' = TRUE
    /\ UNCHANGED <<stage, builder>>

List_page(page) ==
    /\ stage = "List" /\ ~panicked
    /\ lastOp' = Op("List::page", page)
    /\ IF 0 = page
         THEN /\ builder' = [builder EXCEPT !.page = Some(page)]
              /\ UNCHANGED <<stage, panicked>>
         ELSE Panic
    /\ UNCHANGED <<lastSet, pc, outbound, config, schema, sends, dispatchVars>>

List_per_page(per_page) ==
    /\ stage = "List" /\ ~panicked
    /\ lastOp' = Op("List::per_page", per_page)
    /\ IF 0 = per_page
         THEN /\ builder' = [builder EXCEPT !.per_page = Some(per_page)]
              /\ UNCHANGED <<stage, panicked>>
         ELSE Panic
    /\ UNCHANGED <<lastSet, pc, outbound, config, schema, sends, dispatchVars>>

List_order_by(order_by) ==
    /\ stage = "List" /\ ~panicked
    /\ lastOp' = Op("List::order_by", order_by)
    /\ builder' = [builder EXCEPT !.order_by = Some(order_by)]
    /\ UNCHANGED <<stage, panicked>>
    /\ UNCHANGED <<lastSet, pc, outbound, config, schema, sends, dispatchVars>>

(* get consumes the builder. *)
Consume ==
    /\ stage' = "Consumed"
    /\ builder' = None
    /\ UNCHANGED <<panicked, lastSet>>

List_get(access_key) ==
    /\ stage = "List" /\ ~panicked
    /\ lastOp' = Op("List::get", access_key)
    /\ get(ListFields(builder), ClientId(access_key), LIST_URI, "Vec<Photo>")
    /\ Consume
    /\ UNCHANGED dispatchVars

-----------------------------------------------------------------------------
(* The staged random-photo builder.  The stage is the Rust type of the     *)
(* value held: Random (base), RandomQuery, RandomCollection, RandomCount,  *)
(* RandomQueryCount, RandomCollectionCount.  A method exists only on the   *)
(* type that declares it, which is the guard on the stage.                 *)

Random_default ==
    [featured |-> None, username |-> None, w |-> None, h |-> None,
     orientation |-> None]

RandomSerialize(featured, username, w, h, orientation, collection, query) ==
    << Field("featured", "bool", featured),
       Field("username", "String", username),
       Field("w", "usize", w),
       Field("h", "usize", h),
       Field("orientation", "enum", orientation),
       Field("collection", "String", collection),
       Field("query", "String", query) >>

(* count is a plain usize: it is always written. *)
(* Mutant of RandomCountSerialize: count is declared before collection. *)
RandomCountSerialize_count_first(featured, username, w, h, orientation, collection, query, count) ==
    << Field("featured", "bool", featured),
       Field("username", "String", username),
       Field("w", "usize", w),
       Field("h", "usize", h),
       Field("orientation", "enum", orientation),
       Field("count", "usize", Some(count)),
       Field("collection", "String", collection),
       Field("query", "String", query) >>

RandomCountSerialize(featured, username, w, h, orientation, collection, query, count) ==
    << Field("featured", "bool", featured),
       Field("username", "String", username),
       Field("w", "usize", w),
       Field("h", "usize", h),
       Field("orientation", "enum", orientation),
       Field("collection", "String", collection),
       Field("query", "String", query),
       Field("count", "usize", Some(count)) >>

(* Mutant of Setter: a field that is already set keeps its value. *)
Setter_keep_first(name, field, value) ==
    /\ stage = "Random" /\ ~panicked
    /\ lastOp' = Op(name, value)
    /\ builder' = IF builder[field] = None
                    THEN [builder EXCEPT ![field] = Some(value)]
                    ELSE builder
    /\ lastSet' = [lastSet EXCEPT ![field] = Some(value)]
    /\ UNCHANGED <<stage, panicked>>
    /\ UNCHANGED <<pc, outbound, config, schema, sends, dispatchVars>>

Setter(name, field, value) ==
    /\ stage = "Random" /\ ~panicked
    /\ lastOp' = Op(name, value)
    /\ builder' = [builder EXCEPT ![field] = Some(value)]
    /\ lastSet' = [lastSet EXCEPT ![field] = Some(value)]
    /\ UNCHANGED <<stage, panicked>>
    /\ UNCHANGED <<pc, outbound, config, schema, sends, dispatchVars>>

Random_featured(feat) == Setter("Random::featured", "featured", feat)
Random_username(username) == Setter("Random::username", "username", username)
Random_w(w) == Setter("Random::w", "w", w)
Random_h(h) == Setter("Random::h", "h", h)
Random_orientation(orientation) ==
    Setter("Random::orientation", "orientation", orientation)

(* Mutant of Random_query: query is also offered on RandomCollection,      *)
(* where it replaces the collection restriction.                           *)
Random_query_any(query) ==
    /\ stage \in {"Random", "RandomCollection"} /\ ~panicked
    /\ lastOp' = Op("Random::query", query)
    /\ stage' = "RandomQuery"
    /\ builder' = [rand |-> IF stage = "Random" THEN builder ELSE builder.rand,
                   query |-> query]
    /\ UNCHANGED panicked
    /\ UNCHANGED <<lastSet, pc, outbound, config, schema, sends, dispatchVars>>

Random_query(query) ==
    /\ stage = "Random" /\ ~panicked
    /\ lastOp' = Op("Random::query", query)
    /\ stage' = "RandomQuery"
    /\ builder' = [rand |-> builder, query |-> query]
    /\ UNCHANGED panicked
    /\ UNCHANGED <<lastSet, pc, outbound, config, schema, sends, dispatchVars>>

Random_collection(collection) ==
    /\ stage = "Random" /\ ~panicked
    /\ lastOp' = Op("Random::collection", collection)
    /\ stage' = "RandomCollection"
    /\ builder' = [rand |-> builder, collection |-> join(collection, <<",">>)]
    /\ UNCHANGED panicked
    /\ UNCHANGED <<lastSet, pc, outbound, config, schema, sends, dispatchVars>>

(* Mutant of Count: the assertion is left out. *)
Count_unchecked(name, from, to, count) ==
    /\ stage = from /\ ~panicked
    /\ lastOp' = Op(name, count)
    /\ stage' = to
    /\ builder' = [rand |-> builder, count |-> count]
    /\ UNCHANGED panicked
    /\ UNCHANGED <<lastSet, pc, outbound, config, schema, sends, dispatchVars>>

(* The three count methods: assert_ne!(count, 0), then wrap self. *)
Count(name, from, to, count) ==
    /\ stage = from /\ ~panicked
    /\ lastOp' = Op(name, count)
    /\ IF count /= 0
         THEN /\ stage' = to
              /\ builder' = [rand |-> builder, count |-> count]
              /\ UNCHANGED panicked
         ELSE Panic
    /\ UNCHANGED <<lastSet, pc, outbound, config, schema, sends, dispatchVars>>

Random_count(count) ==
    Count("Random::count", "Random", "RandomCount", count)
RandomQuery_count(count) ==
    Count("RandomQuery::count", "RandomQuery", "RandomQueryCount", count)
RandomCollection_count(count) ==
    Count("RandomCollection::count", "RandomCollection",
          "RandomCollectionCount", count)

(* The six get methods.  Random::get hands the access key to the           *)
(* dispatcher as it is; the other five format it as a client id.           *)
Random_get(access_key) ==
    /\ stage = "Random" /\ ~panicked
    /\ lastOp' = Op("Random::get", access_key)
    /\ get(RandomSerialize(builder.featured, builder.username, builder.w,
                           builder.h, builder.orientation, None, None),
           <<access_key>>, RANDOM_URI, "Photo")
    /\ Consume
    /\ UNCHANGED dispatchVars

(* Mutant of RandomQuery_get: the query is also given as the collection. *)
RandomQuery_get_both(access_key) ==
    /\ stage = "RandomQuery" /\ ~panicked
    /\ lastOp' = Op("RandomQuery::get", access_key)
    /\ get(RandomSerialize(builder.rand.featured, builder.rand.username,
                           builder.rand.w, builder.rand.h,
                           builder.rand.orientation, Some(builder.query),
                           Some(builder.query)),
           ClientId(access_key), RANDOM_URI, "Photo")
    /\ Consume
    /\ UNCHANGED dispatchVars

RandomQuery_get(access_key) ==
    /\ stage = "RandomQuery" /\ ~panicked
    /\ lastOp' = Op("RandomQuery::get", access_key)
    /\ get(RandomSerialize(builder.rand.featured, builder.rand.username,
                           builder.rand.w, builder.rand.h,
                           builder.rand.orientation, None,
                           Some(builder.query)),
           ClientId(access_key), RANDOM_URI, "Photo")
    /\ Consume
    /\ UNCHANGED dispatchVars

RandomCollection_get(access_key) ==
    /\ stage = "RandomCollection" /\ ~panicked
    /\ lastOp' = Op("RandomCollection::get", access_key)
    /\ get(RandomSerialize(builder.rand.featured, builder.rand.username,
                           builder.rand.w, builder.rand.h,
                           builder.rand.orientation,
                           Some(builder.collection), None),
           ClientId(access_key), RANDOM_URI, "Photo")
    /\ Consume
    /\ UNCHANGED dispatchVars

(* Mutant of RandomCount_get: a single photo is expected. *)
RandomCount_get_single(access_key) ==
    /\ stage = "RandomCount" /\ ~panicked
    /\ lastOp' = Op("RandomCount::get", access_key)
    /\ get(RandomCountSerialize(builder.rand.featured, builder.rand.username,
                                builder.rand.w, builder.rand.h,
                                builder.rand.orientation, None, None,
                                builder.count),
           ClientId(access_key), RANDOM_URI, "Photo")
    /\ Consume
    /\ UNCHANGED dispatchVars

RandomCount_get(access_key) ==
    /\ stage = "RandomCount" /\ ~panicked
    /\ lastOp' = Op("RandomCount::get", access_key)
    /\ get(RandomCountSerialize(builder.rand.featured, builder.rand.username,
                                builder.rand.w, builder.rand.h,
                                builder.rand.orientation, None, None,
                                builder.count),
           ClientId(access_key), RANDOM_URI, "Vec<Photo>")
    /\ Consume
    /\ UNCHANGED dispatchVars

(* Mutant of RandomQueryCount_get: w is taken from h. *)
RandomQueryCount_get_h_as_w(access_key) ==
    /\ stage = "RandomQueryCount" /\ ~panicked
    /\ lastOp' = Op("RandomQueryCount::get", access_key)
    /\ get(RandomCountSerialize(builder.rand.rand.featured,
                                builder.rand.rand.username,
                                builder.rand.rand.h, builder.rand.rand.h,
                                builder.rand.rand.orientation, None,
                                Some(builder.rand.query), builder.count),
           ClientId(access_key), RANDOM_URI, "Vec<Photo>")
    /\ Consume
    /\ UNCHANGED dispatchVars

RandomQueryCount_get(access_key) ==
    /\ stage = "RandomQueryCount" /\ ~panicked
    /\ lastOp' = Op("RandomQueryCount::get", access_key)
    /\ get(RandomCountSerialize(builder.rand.rand.featured,
                                builder.rand.rand.username,
                                builder.rand.rand.w, builder.rand.rand.h,
                                builder.rand.rand.orientation, None,
                                Some(builder.rand.query), builder.count),
           ClientId(access_key), RANDOM_URI, "Vec<Photo>")
    /\ Consume
    /\ UNCHANGED dispatchVars

RandomCollectionCount_get(access_key) ==
    /\ stage = "RandomCollectionCount" /\ ~panicked
    /\ lastOp' = Op("RandomCollectionCount::get", access_key)
    /\ get(RandomCountSerialize(builder.rand.rand.featured,
                                builder.rand.rand.username,
                                builder.rand.rand.w, builder.rand.rand.h,
                                builder.rand.rand.orientation,
                                Some(builder.rand.collection), None,
                                builder.count),
           ClientId(access_key), RANDOM_URI, "Vec<Photo>")
    /\ Consume
    /\ UNCHANGED dispatchVars

-----------------------------------------------------------------------------
(* The builders: Photos::list() or Photos::random(), then any sequence of  *)
(* builder methods, ended by a get, which returns the future.              *)

DispatchIdle ==
    /\ pc = "start"
    /\ outbound = None
    /\ config = None
    /\ schema = None
    /\ sends = 0
    /\ status = None
    /\ parser = None
    /\ buf = <<>>
    /\ chunks = <<>>
    /\ parsed = <<>>
    /\ result = None

Photos_list ==
    /\ stage = "List"
    /\ builder = List_default
    /\ lastOp = Op("Photos::list", None)

Photos_random ==
    /\ stage = "Random"
    /\ builder = Random_default
    /\ lastOp = Op("Photos::random", None)

Init ==
    /\ Photos_list \/ Photos_random
    /\ panicked = FALSE
    /\ lastSet = Random_default
    /\ DispatchIdle

Next ==
    \/ \E page \in Pages : List_page(page)
    \/ \E per_page \in PerPages : List_per_page(per_page)
    \/ \E order_by \in Orders : List_order_by(order_by)
    \/ \E feat \in Bools : Random_featured(feat)
    \/ \E username \in Usernames : Random_username(username)
    \/ \E w \in Widths : Random_w(w)
    \/ \E h \in Heights : Random_h(h)
    \/ \E orientation \in Orientations : Random_orientation(orientation)
    \/ \E query \in Queries : Random_query(query)
    \/ \E collection \in CollectionLists : Random_collection(collection)
    \/ \E count \in Counts : Random_count(count)
    \/ \E count \in Counts : RandomQuery_count(count)
    \/ \E count \in Counts : RandomCollection_count(count)
    \/ \E access_key \in AccessKeys : List_get(access_key)
    \/ \E access_key \in AccessKeys : Random_get(access_key)
    \/ \E access_key \in AccessKeys : RandomQuery_get(access_key)
    \/ \E access_key \in AccessKeys : RandomCollection_get(access_key)
    \/ \E access_key \in AccessKeys : RandomCount_get(access_key)
    \/ \E access_key \in AccessKeys : RandomQueryCount_get(access_key)
    \/ \E access_key \in AccessKeys : RandomCollectionCount_get(access_key)

Spec == Init /\ [][Next]_vars

-----------------------------------------------------------------------------
(* Error values.  An Error is a Context<ErrorKind>: a kind and the cause   *)
(* it wraps; the cause is another Error or one of the root failures.       *)

HyperError(what) == [type |-> "hyper::Error", what |-> what]
JsonError == [type |-> "serde_json::Error"]
Errors(list) == [type |-> "Errors", list |-> list]

(* cause.context(kind), turned into an Error by Error::from. *)
context(cause, k) == [kind |-> k, cause |-> cause]

(* Error::kind *)
kind(e) == e.kind

Ok(v) == [ok |-> TRUE, value |-> v]
Err(e) == [ok |-> FALSE, error |-> e]

-----------------------------------------------------------------------------
(* serde_json::from_slice on a body of characters.  The bodies of the      *)
(* model hold no white space, escapes, numbers or literals, so a JSON      *)
(* value is a string, an array or an object.                               *)

JStr(s) == [t |-> "str", s |-> s]
JArr(a) == [t |-> "arr", a |-> a]
JObj(m) == [t |-> "obj", m |-> m]

Parsed(val, next) == [ok |-> TRUE, val |-> val, next |-> next]
NoParse == [ok |-> FALSE]

At(v, i, c) == i <= Len(v) /\ v[i] = c

(* The string that opens at position i: up to the next quote. *)
ParseStr(v, i) ==
    IF ~At(v, i, "\"") THEN NoParse
    ELSE LET closing == {j \in (i + 1)..Len(v) : v[j] = "\""}
         IN  IF closing = {} THEN NoParse
             ELSE LET j == CHOOSE c \in closing : \A d \in closing : c <= d
                  IN  Parsed(JStr(SubSeq(v, i + 1, j - 1)), j + 1)

RECURSIVE ParseValue(_, _)
RECURSIVE ParseElems(_, _, _)
RECURSIVE ParseMembers(_, _, _)

ParseValue(v, i) ==
    IF At(v, i, "\"") THEN ParseStr(v, i)
    ELSE IF At(v, i, "[")
      THEN IF At(v, i + 1, "]") THEN Parsed(JArr(<<>>), i + 2)
           ELSE ParseElems(v, i + 1, <<>>)
    ELSE IF At(v, i, "{")
      THEN IF At(v, i + 1, "}") THEN Parsed(JObj(<<>>), i + 2)
           ELSE ParseMembers(v, i + 1, <<>>)
    ELSE NoParse

ParseElems(v, i, acc) ==
    LET e == ParseValue(v, i)
    IN  IF ~e.ok THEN NoParse
        ELSE IF At(v, e.next, ",")
          THEN ParseElems(v, e.next + 1, Append(acc, e.val))
        ELSE IF At(v, e.next, "]")
          THEN Parsed(JArr(Append(acc, e.val)), e.next + 1)
        ELSE NoParse

ParseMembers(v, i, acc) ==
    LET k == ParseStr(v, i)
    IN  IF ~k.ok \/ ~At(v, k.next, ":") THEN NoParse
        ELSE LET e == ParseValue(v, k.next + 1)
             IN  IF ~e.ok THEN NoParse
                 ELSE IF At(v, e.next, ",")
                   THEN ParseMembers(v, e.next + 1,
                                     Append(acc, <<k.val.s, e.val>>))
                 ELSE IF At(v, e.next, "}")
                   THEN Parsed(JObj(Append(acc, <<k.val.s, e.val>>)),
                               e.next + 1)
                 ELSE NoParse

(* The whole input must be one value: trailing characters are an error. *)
ParseJson(v) ==
    LET r == ParseValue(v, 1)
    IN  IF r.ok /\ r.next = Len(v) + 1 THEN r ELSE NoParse

url_key == <<"u", "r", "l">>

(* Deserialize of Url { url: String }, as derived: from an object with     *)
(* exactly one "url" member holding a string (other members are ignored),  *)
(* or from a one-element array holding a string.                           *)
DecodeUrl(j) ==
    IF j.t = "obj"
      THEN LET urls == SelectSeq(j.m, LAMBDA kv : kv[1] = url_key)
           IN  IF Len(urls) = 1 /\ urls[1][2].t = "str"
                 THEN Ok([url |-> urls[1][2].s])
                 ELSE Err(JsonError)
    ELSE IF j.t = "arr"
      THEN IF Len(j.a) = 1 /\ j.a[1].t = "str"
             THEN Ok([url |-> j.a[1].s])
             ELSE Err(JsonError)
    ELSE Err(JsonError)

(* Deserialize of Vec<Url>: an array whose every element is a Url. *)
DecodeVecUrl(j) ==
    IF j.t = "arr" /\ \A i \in 1..Len(j.a) : DecodeUrl(j.a[i]).ok
      THEN Ok([i \in 1..Len(j.a) |-> DecodeUrl(j.a[i]).value])
      ELSE Err(JsonError)

(* Deserialize of Errors(Vec<String>): an array of strings. *)
DecodeErrors(j) ==
    IF j.t = "arr" /\ \A i \in 1..Len(j.a) : j.a[i].t = "str"
      THEN Ok(Errors([i \in 1..Len(j.a) |-> j.a[i].s]))
      ELSE Err(JsonError)

from_slice(T, v) ==
    LET r == ParseJson(v)
    IN  IF ~r.ok THEN Err(JsonError)
        ELSE CASE T = "Errors" -> DecodeErrors(r.val)
               [] T = "Url" -> DecodeUrl(r.val)
               [] T = "Vec<Url>" -> DecodeVecUrl(r.val)

-----------------------------------------------------------------------------
(* The two parsers. *)

(* Mutant of parse_err: a decoded error list is returned as a success. *)
parse_err_ok(v) ==
    LET r == from_slice("Errors", v)
    IN  IF r.ok THEN Ok(r.value)
        ELSE Err(context(r.error, "MalformedResponse"))

parse_err(v) ==
    LET r == from_slice("Errors", v)
    IN  IF r.ok THEN Err(context(r.value, "MalformedResponse"))
        ELSE Err(context(r.error, "MalformedResponse"))

parse_data(R, v) ==
    LET r == from_slice(R, v)
    IN  IF r.ok THEN Ok(r.value)
        ELSE Err(context(r.error, "MalformedResponse"))

-----------------------------------------------------------------------------
(* The asynchronous part of the request dispatcher: the future returned    *)
(* by request, driven by the transport.                                    *)

FORBIDDEN == 403

Statuses == {200, 299, 300, FORBIDDEN, 404}

ChunkSet ==
    { <<"[">>,
      <<"]">>,
      <<"\"", "e", "\"">>,
      <<",", "\"", "f", "\"">>,
      <<"{", "\"", "u", "r", "l", "\"", ":", "\"", "x", "\"", "}">> }

(* Mutant of is_success: only 200 counts as success. *)
is_success_200(s) == s = 200

(* StatusCode::is_success *)
is_success(s) == 200 <= s /\ s < 300

select_parser(s) == IF is_success(s) THEN "parse_data" ELSE "parse_err"

(* Mutant of fold: the chunk is put in front of the accumulator. *)
fold_prepend(v, chunk) == chunk \o v

fold(v, chunk) == v \o chunk

run_parser(p, R, v) == IF p = "parse_data" THEN parse_data(R, v) ELSE parse_err(v)

(* Mutant of retag: the forbidden kind replaces the error instead of       *)
(* wrapping it.                                                            *)
retag_replace(s, r) ==
    IF ~r.ok /\ s = FORBIDDEN
      THEN Err(context(r.error.cause, "Forbidden"))
      ELSE r

(* Mutant of retag: every client-error status is tagged as forbidden. *)
retag_client_error(s, r) ==
    IF ~r.ok /\ 400 <= s /\ s < 500
      THEN Err(context(r.error, "Forbidden"))
      ELSE r

(* The last map_err of the chain: an error of a forbidden response is      *)
(* wrapped in the Forbidden kind, anything else passes through.            *)
retag(s, r) ==
    IF ~r.ok /\ s = FORBIDDEN
      THEN Err(context(r.error, "Forbidden"))
      ELSE r

(* Mutant of Transport_error: the failure is tagged as a malformed         *)
(* response.                                                               *)
Transport_error_malformed ==
    /\ pc = "sent"
    /\ lastOp' = Op("transport error", None)
    /\ result' = Some(Err(context(HyperError("request"),
                                  "MalformedResponse")))
    /\ pc' = "done"
    /\ UNCHANGED <<builderVars, outbound, config, schema, sends, status, parser, buf,
                   chunks, parsed>>

(* Mutant of Transport_error: the request is sent again. *)
Transport_error_retry ==
    /\ pc = "sent"
    /\ lastOp' = Op("transport error", None)
    /\ sends' = sends + 1
    /\ UNCHANGED <<builderVars, pc, outbound, config, schema, dispatchVars>>

(* client.request fails: no response is obtained. *)
Transport_error ==
    /\ pc = "sent"
    /\ lastOp' = Op("transport error", None)
    /\ result' = Some(Err(context(HyperError("request"), "Request")))
    /\ pc' = "done"
    /\ UNCHANGED <<builderVars, outbound, config, schema, sends, status, parser, buf,
                   chunks, parsed>>

(* The response head arrives: the parser is selected and the status kept. *)
Response(s) ==
    /\ pc = "sent"
    /\ lastOp' = Op("response", s)
    /\ parser' = Some(select_parser(s))
    /\ status' = Some(s)
    /\ pc' = "body"
    /\ UNCHANGED <<builderVars, outbound, config, schema, sends, buf, chunks, parsed,
                   result>>

(* The body stream yields a chunk: fold appends it. *)
Body_chunk(chunk) ==
    /\ pc = "body"
    /\ Len(chunks) < MaxChunks
    /\ lastOp' = Op("chunk", chunk)
    /\ buf' = fold(buf, chunk)
    /\ chunks' = Append(chunks, chunk)
    /\ UNCHANGED <<builderVars, pc, outbound, config, schema, sends, status, parser,
                   parsed, result>>

(* Mutant of Body_error: the failure is tagged as a transport error. *)
Body_error_request ==
    /\ pc = "body"
    /\ lastOp' = Op("body error", None)
    /\ result' = Some(retag(Unwrap(status),
                            Err(context(HyperError("body"), "Request"))))
    /\ pc' = "done"
    /\ UNCHANGED <<builderVars, outbound, config, schema, sends, status, parser, buf,
                   chunks, parsed>>

(* The body stream fails: the fold and the parser are skipped. *)
Body_error ==
    /\ pc = "body"
    /\ lastOp' = Op("body error", None)
    /\ result' = Some(retag(Unwrap(status),
                            Err(context(HyperError("body"),
                                        "MalformedResponse"))))
    /\ pc' = "done"
    /\ UNCHANGED <<builderVars, outbound, config, schema, sends, status, parser, buf,
                   chunks, parsed>>

(* Mutant of Body_end: the parser also runs after the future was dropped. *)
Body_end_after_drop ==
    /\ pc \in {"body", "dropped"} /\ IsSome(parser)
    /\ lastOp' = Op("body end", None)
    /\ parsed' = Append(parsed, [parser |-> Unwrap(parser), input |-> buf])
    /\ result' = Some(retag(Unwrap(status),
                            run_parser(Unwrap(parser), schema, buf)))
    /\ pc' = "done"
    /\ UNCHANGED <<builderVars, outbound, config, schema, sends, status, parser, buf,
                   chunks>>

(* Mutant of Body_end: the parser is chosen again from the body, an array  *)
(* being taken for an error list.                                          *)
Body_end_by_body ==
    /\ pc = "body"
    /\ lastOp' = Op("body end", None)
    /\ LET p == IF buf # <<>> /\ buf[1] = "[" THEN "parse_err" ELSE "parse_data"
       IN  /\ parsed' = Append(parsed, [parser |-> p, input |-> buf])
           /\ result' = Some(retag(Unwrap(status), run_parser(p, schema, buf)))
    /\ pc' = "done"
    /\ UNCHANGED <<builderVars, outbound, config, schema, sends, status, parser, buf,
                   chunks>>

(* The body stream ends: the selected parser runs on the buffer. *)
Body_end ==
    /\ pc = "body"
    /\ lastOp' = Op("body end", None)
    /\ parsed' = Append(parsed, [parser |-> Unwrap(parser), input |-> buf])
    /\ result' = Some(retag(Unwrap(status),
                            run_parser(Unwrap(parser), schema, buf)))
    /\ pc' = "done"
    /\ UNCHANGED <<builderVars, outbound, config, schema, sends, status, parser, buf,
                   chunks>>

(* The caller drops the future before it resolved: the combinators and    *)
(* the closures they hold are dropped with it and are never polled again.  *)
Drop ==
    /\ pc \in {"sent", "body"}
    /\ lastOp' = Op("drop", pc)
    /\ pc' = "dropped"
    /\ UNCHANGED <<builderVars, outbound, config, schema, sends, dispatchVars>>

-----------------------------------------------------------------------------
(* The dispatcher on its own: endpoint code calls one of get, put, delete  *)
(* and post, and the transport drives the returned future.                 *)

SampleQueries ==
    { RandomSerialize(None, None, None, None, None, None, None),
      RandomCountSerialize(Some(TRUE), None, None, None, None, None,
                           Some(<<"c", "a", "t", "s">>), 3) }
SampleAuths == {ClientId("k1"), <<"Bearer ", "t1">>}
SampleUris == {RANDOM_URI}
SuccessTypes == {"Url", "Vec<Url>"}

(* The arguments of a call, as kept in the history variable lastOp. *)
Inputs(query, auth, uri, R) == [query |-> query, auth |-> auth, uri |-> uri, R |-> R]

Call_get(query, auth, uri, R) ==
    /\ pc = "start"
    /\ lastOp' = Op("get", Inputs(query, auth, uri, R))
    /\ get(query, auth, uri, R)
    /\ UNCHANGED <<builderVars, dispatchVars>>

Call_put(query, auth, uri, R) ==
    /\ pc = "start"
    /\ lastOp' = Op("put", Inputs(query, auth, uri, R))
    /\ put(query, auth, uri, R)
    /\ UNCHANGED <<builderVars, dispatchVars>>

Call_delete(query, auth, uri, R) ==
    /\ pc = "start"
    /\ lastOp' = Op("delete", Inputs(query, auth, uri, R))
    /\ delete(query, auth, uri, R)
    /\ UNCHANGED <<builderVars, dispatchVars>>

Call_post(query, auth, uri, R) ==
    /\ pc = "start"
    /\ lastOp' = Op("post", Inputs(query, auth, uri, R))
    /\ post(query, auth, uri, R)
    /\ UNCHANGED <<builderVars, dispatchVars>>

InitDispatch ==
    /\ stage = "Endpoint"
    /\ builder = None
    /\ panicked = FALSE
    /\ lastSet = Random_default
    /\ lastOp = Op("start", None)
    /\ DispatchIdle

NextDispatch ==
    \/ \E query \in SampleQueries, auth \in SampleAuths, uri \in SampleUris,
          R \in SuccessTypes : Call_get(query, auth, uri, R)
    \/ \E query \in SampleQueries, auth \in SampleAuths, uri \in SampleUris,
          R \in SuccessTypes : Call_put(query, auth, uri, R)
    \/ \E query \in SampleQueries, auth \in SampleAuths, uri \in SampleUris,
          R \in SuccessTypes : Call_delete(query, auth, uri, R)
    \/ \E query \in SampleQueries, auth \in SampleAuths, uri \in SampleUris,
          R \in SuccessTypes : Call_post(query, auth, uri, R)
    \/ Transport_error
    \/ \E s \in Statuses : Response(s)
    \/ \E chunk \in ChunkSet : Body_chunk(chunk)
    \/ Body_error
    \/ Body_end
    \/ Drop

SpecDispatch == InitDispatch /\ [][NextDispatch]_vars

-----------------------------------------------------------------------------
(* Several dispatches in flight at once.  Every call of request owns its   *)
(* future: the buffer, the status and the selected parser are locals of    *)
(* that call, so each variable of the dispatcher is here a function of the *)
(* flight.  The executor polls one future at a time, so a step belongs to  *)
(* one flight.                                                             *)

FlightIds == {"a", "b"}
FlightStatuses == {200, FORBIDDEN, 404}
FlightChunks == { <<"[">>, <<"\"", "e", "\"", "]">> }
FlightQuery ==
    RandomCountSerialize(None, None, None, None, None, None,
                         Some(<<"c", "a", "t", "s">>), 3)

Flight_get(i, query, auth, uri, R) ==
    /\ pc[i] = "start"
    /\ lastOp' = [lastOp EXCEPT ![i] = Op("get", Inputs(query, auth, uri, R))]
    /\ outbound' = [outbound EXCEPT ![i] =
                       Some(Request_builder("GET", uri \o to_query(query), auth))]
    /\ config' = [config EXCEPT ![i] = Some(query)]
    /\ schema' = [schema EXCEPT ![i] = R]
    /\ sends' = [sends EXCEPT ![i] = sends[i] + 1]
    /\ pc' = [pc EXCEPT ![i] = "sent"]
    /\ UNCHANGED <<builderVars, dispatchVars>>

Flight_transport_error(i) ==
    /\ pc[i] = "sent"
    /\ lastOp' = [lastOp EXCEPT ![i] = Op("transport error", None)]
    /\ result' = [result EXCEPT ![i] =
                     Some(Err(context(HyperError("request"), "Request")))]
    /\ pc' = [pc EXCEPT ![i] = "done"]
    /\ UNCHANGED <<builderVars, outbound, config, schema, sends, status, parser, buf,
                   chunks, parsed>>

Flight_response(i, s) ==
    /\ pc[i] = "sent"
    /\ lastOp' = [lastOp EXCEPT ![i] = Op("response", s)]
    /\ parser' = [parser EXCEPT ![i] = Some(select_parser(s))]
    /\ status' = [status EXCEPT ![i] = Some(s)]
    /\ pc' = [pc EXCEPT ![i] = "body"]
    /\ UNCHANGED <<builderVars, outbound, config, schema, sends, buf, chunks, parsed,
                   result>>

(* Mutant of Flight_body_chunk: the flights fold into one shared buffer. *)
Flight_body_chunk_shared(i, chunk) ==
    /\ pc[i] = "body"
    /\ Len(chunks[i]) < MaxChunks
    /\ lastOp' = [lastOp EXCEPT ![i] = Op("chunk", chunk)]
    /\ buf' = [j \in FlightIds |-> fold(buf[j], chunk)]
    /\ chunks' = [chunks EXCEPT ![i] = Append(chunks[i], chunk)]
    /\ UNCHANGED <<builderVars, pc, outbound, config, schema, sends, status, parser,
                   parsed, result>>

Flight_body_chunk(i, chunk) ==
    /\ pc[i] = "body"
    /\ Len(chunks[i]) < MaxChunks
    /\ lastOp' = [lastOp EXCEPT ![i] = Op("chunk", chunk)]
    /\ buf' = [buf EXCEPT ![i] = fold(buf[i], chunk)]
    /\ chunks' = [chunks EXCEPT ![i] = Append(chunks[i], chunk)]
    /\ UNCHANGED <<builderVars, pc, outbound, config, schema, sends, status, parser,
                   parsed, result>>

Flight_body_error(i) ==
    /\ pc[i] = "body"
    /\ lastOp' = [lastOp EXCEPT ![i] = Op("body error", None)]
    /\ result' = [result EXCEPT ![i] =
                     Some(retag(Unwrap(status[i]),
                                Err(context(HyperError("body"),
                                            "MalformedResponse"))))]
    /\ pc' = [pc EXCEPT ![i] = "done"]
    /\ UNCHANGED <<builderVars, outbound, config, schema, sends, status, parser, buf,
                   chunks, parsed>>

Flight_body_end(i) ==
    /\ pc[i] = "body"
    /\ lastOp' = [lastOp EXCEPT ![i] = Op("body end", None)]
    /\ parsed' = [parsed EXCEPT ![i] =
                     Append(parsed[i],
                            [parser |-> Unwrap(parser[i]), input |-> buf[i]])]
    /\ result' = [result EXCEPT ![i] =
                     Some(retag(Unwrap(status[i]),
                                run_parser(Unwrap(parser[i]), schema[i], buf[i])))]
    /\ pc' = [pc EXCEPT ![i] = "done"]
    /\ UNCHANGED <<builderVars, outbound, config, schema, sends, status, parser, buf,
                   chunks>>

InitConcurrent ==
    /\ stage = "Endpoint"
    /\ builder = None
    /\ panicked = FALSE
    /\ lastSet = Random_default
    /\ lastOp = [i \in FlightIds |-> Op("start", None)]
    /\ pc = [i \in FlightIds |-> "start"]
    /\ outbound = [i \in FlightIds |-> None]
    /\ config = [i \in FlightIds |-> None]
    /\ schema = [i \in FlightIds |-> None]
    /\ sends = [i \in FlightIds |-> 0]
    /\ status = [i \in FlightIds |-> None]
    /\ parser = [i \in FlightIds |-> None]
    /\ buf = [i \in FlightIds |-> <<>>]
    /\ chunks = [i \in FlightIds |-> <<>>]
    /\ parsed = [i \in FlightIds |-> <<>>]
    /\ result = [i \in FlightIds |-> None]

NextConcurrent ==
    \/ \E i \in FlightIds, R \in SuccessTypes :
          Flight_get(i, FlightQuery, ClientId("k1"), RANDOM_URI, R)
    \/ \E i \in FlightIds : Flight_transport_error(i)
    \/ \E i \in FlightIds, s \in FlightStatuses : Flight_response(i, s)
    \/ \E i \in FlightIds, chunk \in FlightChunks : Flight_body_chunk(i, chunk)
    \/ \E i \in FlightIds : Flight_body_error(i)
    \/ \E i \in FlightIds : Flight_body_end(i)

SpecConcurrent == InitConcurrent /\ [][NextConcurrent]_vars

-----------------------------------------------------------------------------
(* Properties of the builders, checked under Spec. *)

C1_PageStep ==
    lastOp'.name = "List::page" =>
        IF lastOp'.arg = 0
          THEN panicked' /\ outbound' = None
          ELSE /\ ~panicked'
               /\ stage' = "List"
               /\ builder' = [builder EXCEPT !.page = Some(lastOp'.arg)]

(* C1: List::page(p) panics when p = 0, before any request is built, and   *)
(* for every p >= 1 it does not panic and returns the builder with page    *)
(* set to p and per_page and order_by unchanged.                           *)
C1_PageRejectsZero == [][C1_PageStep]_vars

C2_PerPageStep ==
    lastOp'.name = "List::per_page" =>
        IF lastOp'.arg = 0
          THEN panicked' /\ outbound' = None
          ELSE /\ ~panicked'
               /\ stage' = "List"
               /\ builder' = [builder EXCEPT !.per_page = Some(lastOp'.arg)]

(* C2: List::per_page(n) panics when n = 0, before any request is built,   *)
(* and for every n >= 1 it does not panic and returns the builder with     *)
(* per_page set to n and page and order_by unchanged.                      *)
C2_PerPageRejectsZero == [][C2_PerPageStep]_vars

CountOps == {"Random::count", "RandomQuery::count", "RandomCollection::count"}

CountedGets ==
    {"RandomCount::get", "RandomQueryCount::get", "RandomCollectionCount::get"}

CountedOf(s) ==
    CASE s = "Random" -> "RandomCount"
      [] s = "RandomQuery" -> "RandomQueryCount"
      [] s = "RandomCollection" -> "RandomCollectionCount"

(* The value of the count parameter of a URI, None when it has none. *)
CountParam(uri) ==
    LET at == {i \in 1..(Len(uri) - 2) : uri[i] = "count" /\ uri[i + 1] = "="}
    IN  IF at = {} THEN None ELSE Some(uri[(CHOOSE i \in at : TRUE) + 2])

C3_CountStep ==
    /\ lastOp'.name \in CountOps =>
          IF lastOp'.arg = 0
            THEN panicked' /\ stage' = stage /\ outbound' = None
            ELSE /\ ~panicked'
                 /\ stage' = CountedOf(stage)
                 /\ builder' = [rand |-> builder, count |-> lastOp'.arg]
    /\ lastOp'.name \in CountedGets =>
          /\ builder.count >= 1
          /\ outbound' /= None
          /\ CountParam(Unwrap(outbound').uri) = Some(ToString(builder.count))

(* C3: on the base, query and collection stages count(0) panics and        *)
(* produces no counted stage, count(n) for n >= 1 produces the counted     *)
(* stage holding n, and every request sent by get from a counted stage     *)
(* carries a count of at least 1.                                          *)
C3_CountAtLeastOne == [][C3_CountStep]_vars

C3_Witness ==
    /\ lastOp.name = "RandomQueryCount::get"
    /\ pc = "sent"
    /\ CountParam(Unwrap(outbound).uri) = Some("3")

Setters ==
    {"Random::featured", "Random::username", "Random::w", "Random::h",
     "Random::orientation"}

RandomStages ==
    {"Random", "RandomQuery", "RandomCollection", "RandomCount",
     "RandomQueryCount", "RandomCollectionCount"}

GetOf(s) ==
    CASE s = "Random" -> "Random::get"
      [] s = "RandomQuery" -> "RandomQuery::get"
      [] s = "RandomCollection" -> "RandomCollection::get"
      [] s = "RandomCount" -> "RandomCount::get"
      [] s = "RandomQueryCount" -> "RandomQueryCount::get"
      [] s = "RandomCollectionCount" -> "RandomCollectionCount::get"

(* The transitions of the random-photo builder: from, operation, to.  The  *)
(* stages Base, Query, Collection, Counted, QueryCounted and               *)
(* CollectionCounted are the types Random, RandomQuery, RandomCollection,  *)
(* RandomCount, RandomQueryCount and RandomCollectionCount.                *)
Transitions ==
    {<<"Random", op, "Random">> : op \in Setters}
    \cup {<<"Random", "Random::query", "RandomQuery">>,
          <<"Random", "Random::collection", "RandomCollection">>,
          <<"Random", "Random::count", "RandomCount">>,
          <<"RandomQuery", "RandomQuery::count", "RandomQueryCount">>,
          <<"RandomCollection", "RandomCollection::count",
            "RandomCollectionCount">>}
    \cup {<<s, GetOf(s), "Consumed">> : s \in RandomStages}

GetEnabled(s) ==
    CASE s = "Random" -> ENABLED (\E k \in AccessKeys : Random_get(k))
      [] s = "RandomQuery" -> ENABLED (\E k \in AccessKeys : RandomQuery_get(k))
      [] s = "RandomCollection" ->
            ENABLED (\E k \in AccessKeys : RandomCollection_get(k))
      [] s = "RandomCount" -> ENABLED (\E k \in AccessKeys : RandomCount_get(k))
      [] s = "RandomQueryCount" ->
            ENABLED (\E k \in AccessKeys : RandomQueryCount_get(k))
      [] s = "RandomCollectionCount" ->
            ENABLED (\E k \in AccessKeys : RandomCollectionCount_get(k))

C10_Step ==
    stage \in RandomStages =>
        IF panicked' THEN stage' = stage /\ lastOp'.name \in CountOps
        ELSE <<stage, lastOp'.name, stage'>> \in Transitions

(* C10: the random-photo builder starts in the base stage; every step that *)
(* does not panic is one of the listed transitions (the five setters keep  *)
(* the base stage, query, collection and count narrow it, count narrows    *)
(* the query and collection stages, get consumes the builder), so the      *)
(* counted stages have no transition but get and the query and collection  *)
(* stages have no setter and no switch of branch; and get is available in  *)
(* every stage.                                                            *)
C10_BuilderStateMachine ==
    /\ [](lastOp.name = "Photos::random" => stage = "Random")
    /\ [](stage \in RandomStages /\ ~panicked => GetEnabled(stage))
    /\ [][C10_Step]_vars

C10_Witness ==
    /\ lastOp.name = "RandomCollectionCount::get"
    /\ stage = "Consumed"

-----------------------------------------------------------------------------
(* Properties of the dispatcher, checked under SpecDispatch. *)

SuccessRange == 200..299

Completed == pc = "done" /\ result /= None
GotResponse == status /= None
BodyEnded == Completed /\ lastOp.name = "body end"
BodyBroke == Completed /\ lastOp.name = "body error"

RECURSIVE RootCause(_)
RootCause(e) == IF "cause" \in DOMAIN e THEN RootCause(e.cause) ELSE e

ErrorListBody == <<"[", "\"", "e", "\"", "]">>
UrlBody == <<"{", "\"", "u", "r", "l", "\"", ":", "\"", "x", "\"", "}">>

(* C4: a response with a status in 200..299 whose body was received in     *)
(* full is decoded by parse_data only, against the success type: the       *)
(* result is the decoded value when the decode succeeds and an error of    *)
(* kind MalformedResponse wrapping the decode failure when it fails.       *)
C4_SuccessDecodedAsData ==
    BodyEnded /\ Unwrap(status) \in SuccessRange =>
        /\ parsed = <<[parser |-> "parse_data", input |-> buf]>>
        /\ LET d == from_slice(schema, buf)
               r == Unwrap(result)
           IN  IF d.ok THEN r = Ok(d.value)
               ELSE /\ ~r.ok
                    /\ kind(r.error) = "MalformedResponse"
                    /\ r.error.cause = d.error

C4_Witness ==
    /\ BodyEnded
    /\ status = Some(299)
    /\ schema = "Url"
    /\ buf = UrlBody
    /\ result = Some(Ok([url |-> <<"x">>]))

(* C5: a response with a status outside 200..299 always completes with an  *)
(* error, whatever the status; its body is decoded by parse_err only,      *)
(* against the error list, and the error wraps the decoded list when the   *)
(* decode succeeds and the decode failure when it fails.                   *)
C5_NonSuccessIsError ==
    Completed /\ GotResponse /\ Unwrap(status) \notin SuccessRange =>
        /\ ~Unwrap(result).ok
        /\ BodyBroke => parsed = <<>>
        /\ BodyEnded =>
              /\ parsed = <<[parser |-> "parse_err", input |-> buf]>>
              /\ LET d == from_slice("Errors", buf)
                 IN  RootCause(Unwrap(result).error) =
                        IF d.ok THEN d.value ELSE d.error

C5_Witness ==
    /\ BodyEnded
    /\ status = Some(404)
    /\ buf = ErrorListBody
    /\ RootCause(Unwrap(result).error) = Errors(<< <<"e">> >>)

(* C6: a response with status 403 completes with an error of kind          *)
(* Forbidden whose cause is the error parse_err made of the body: the      *)
(* MalformedResponse error wrapping the decoded list, or wrapping the      *)
(* decode failure when the body is undecodable.                            *)
C6_ForbiddenWrapsParseError ==
    BodyEnded /\ status = Some(403) =>
        LET d == from_slice("Errors", buf)
            r == Unwrap(result)
        IN  /\ ~r.ok
            /\ kind(r.error) = "Forbidden"
            /\ r.error.cause =
                  [kind |-> "MalformedResponse",
                   cause |-> IF d.ok THEN d.value ELSE d.error]
            /\ buf = ErrorListBody =>
                  r.error.cause.cause = Errors(<< <<"e">> >>)

C6_Witness ==
    /\ BodyEnded
    /\ status = Some(403)
    /\ buf = ErrorListBody
    /\ kind(Unwrap(result).error) = "Forbidden"

(* C7: an error of kind MalformedResponse means that a response was        *)
(* obtained and its body stream broke or its body failed to decode against *)
(* the schema its status selects; a non-success response whose body        *)
(* decodes as an error list is not reported as MalformedResponse.          *)
C7_MalformedMeansUndecodable ==
    Completed /\ ~Unwrap(result).ok
              /\ kind(Unwrap(result).error) = "MalformedResponse" =>
        /\ GotResponse
        /\ \/ BodyBroke
           \/ /\ BodyEnded
              /\ ~from_slice(IF Unwrap(status) \in SuccessRange
                               THEN schema ELSE "Errors", buf).ok

C8_Step ==
    /\ lastOp'.name = "transport error" =>
          /\ pc = "sent"
          /\ result' = Some(Err([kind |-> "Request",
                                 cause |-> HyperError("request")]))
          /\ pc' = "done"
          /\ sends' = 1
          /\ status' = None
          /\ buf' = <<>> /\ chunks' = <<>>
          /\ parsed' = <<>>
    /\ lastOp.name /= "transport error"

(* C8: when the transport fails before a response is obtained the result   *)
(* is an error of kind Request wrapping the transport failure; the request *)
(* was sent once, no body was buffered, no parser ran, and nothing happens *)
(* afterwards (no second send, no re-tag).                                 *)
C8_TransportErrorIsRequest == [][C8_Step]_vars

C8_Witness ==
    /\ lastOp.name = "transport error"
    /\ Completed
    /\ kind(Unwrap(result).error) = "Request"

(* C9 as stated: when a response of any status was obtained and the body   *)
(* stream fails, the result is an error of kind MalformedResponse and no   *)
(* parser has run.                                                         *)
C9_BodyErrorIsMalformed ==
    BodyBroke =>
        /\ ~Unwrap(result).ok
        /\ kind(Unwrap(result).error) = "MalformedResponse"
        /\ parsed = <<>>

(* C9 as amended: when a response was obtained and the body stream fails,  *)
(* no parser has run and the result is never of kind Request: it is the    *)
(* MalformedResponse error wrapping the stream failure, wrapped once more  *)
(* in kind Forbidden when the status is 403.                               *)
C9_BodyErrorMalformedOrForbidden ==
    BodyBroke =>
        LET r == Unwrap(result)
            m == [kind |-> "MalformedResponse", cause |-> HyperError("body")]
        IN  /\ ~r.ok
            /\ parsed = <<>>
            /\ kind(r.error) /= "Request"
            /\ r.error = IF status = Some(403)
                           THEN [kind |-> "Forbidden", cause |-> m]
                           ELSE m

C9_Witness ==
    /\ BodyBroke
    /\ status = Some(404)
    /\ chunks /= <<>>
    /\ kind(Unwrap(result).error) = "MalformedResponse"

-----------------------------------------------------------------------------
(* Properties of the flattened configuration, checked under Spec. *)

RandomGets == {GetOf(s) : s \in RandomStages}

(* The Option value of the field of a configuration, None when the         *)
(* configuration has no such field.                                        *)
FieldOf(cfg, key) ==
    LET at == {i \in 1..Len(cfg) : cfg[i].key = key}
    IN  IF at = {} THEN None ELSE cfg[CHOOSE i \in at : TRUE].opt

(* TRUE when the URI holds a pair for the key. *)
HasParam(uri, key) ==
    \E i \in 1..(Len(uri) - 1) : uri[i] = key /\ uri[i + 1] = "="

QueryStages == {"RandomQuery", "RandomQueryCount"}
CollectionStages == {"RandomCollection", "RandomCollectionCount"}
CountedStages == {"RandomCount", "RandomQueryCount", "RandomCollectionCount"}

C11_Step ==
    lastOp'.name \in RandomGets =>
        LET c == Unwrap(config')
            uri == Unwrap(outbound').uri
        IN  /\ IsSome(FieldOf(c, "query")) <=> stage \in QueryStages
            /\ IsSome(FieldOf(c, "collection")) <=> stage \in CollectionStages
            /\ HasParam(uri, "query") <=> stage \in QueryStages
            /\ HasParam(uri, "collection") <=> stage \in CollectionStages
            /\ ~(IsSome(FieldOf(c, "query")) /\ IsSome(FieldOf(c, "collection")))

(* C11: the configuration flattened by get never holds both query and      *)
(* collection: query is present exactly on the query stages, collection    *)
(* exactly on the collection stages, and neither on the base and counted   *)
(* stages.                                                                 *)
C11_QueryXorCollection == [][C11_Step]_vars

C11_Witness ==
    /\ lastOp.name = "RandomQuery::get"
    /\ FieldOf(Unwrap(config), "query") = Some(<<"c", "a", "t", "s">>)
    /\ FieldOf(Unwrap(config), "collection") = None

BaseFields == {"featured", "username", "w", "h", "orientation"}

(* What a builder value holds, by its type. *)
BaseOf(st, b) ==
    CASE st = "Random" -> b
      [] st \in {"RandomQuery", "RandomCollection", "RandomCount"} -> b.rand
      [] st \in {"RandomQueryCount", "RandomCollectionCount"} -> b.rand.rand

QueryOf(st, b) ==
    CASE st = "RandomQuery" -> Some(b.query)
      [] st = "RandomQueryCount" -> Some(b.rand.query)
      [] OTHER -> None

CollectionOf(st, b) ==
    CASE st = "RandomCollection" -> Some(b.collection)
      [] st = "RandomCollectionCount" -> Some(b.rand.collection)
      [] OTHER -> None

CountOf(st, b) == IF st \in CountedStages THEN Some(b.count) ELSE None

Narrowings == CountOps \cup {"Random::query", "Random::collection"}

C12_Step ==
    /\ lastOp'.name \in Narrowings /\ ~panicked' =>
          /\ BaseOf(stage', builder') = BaseOf(stage, builder)
          /\ BaseOf(stage', builder') = lastSet
          /\ QueryOf(stage', builder') =
                IF lastOp'.name = "Random::query" THEN Some(lastOp'.arg)
                ELSE QueryOf(stage, builder)
          /\ CollectionOf(stage', builder') =
                IF lastOp'.name = "Random::collection"
                  THEN Some(join(lastOp'.arg, <<",">>))
                  ELSE CollectionOf(stage, builder)
          /\ CountOf(stage', builder') = Some(lastOp'.arg)
                <=> lastOp'.name \in CountOps
    /\ lastOp'.name \in RandomGets =>
          LET c == Unwrap(config')
          IN  /\ \A f \in BaseFields : FieldOf(c, f) = lastSet[f]
              /\ FieldOf(c, "query") = QueryOf(stage, builder)
              /\ FieldOf(c, "collection") = CollectionOf(stage, builder)
              /\ FieldOf(c, "count") = CountOf(stage, builder)
              /\ stage = "RandomQueryCount" =>
                    c = RandomSerialize(lastSet.featured, lastSet.username,
                                        lastSet.w, lastSet.h,
                                        lastSet.orientation, None,
                                        Some(builder.rand.query))
                        \o <<Field("count", "usize", Some(builder.count))>>

(* C12: get flattens to a configuration in which featured, username, w, h  *)
(* and orientation are the values last set on the base stage (absent if    *)
(* never set), query and collection are the restriction fixed by the       *)
(* branch taken (absent otherwise) and count is the fixed count on a       *)
(* counted stage; query, collection and count leave the fields accumulated *)
(* before unchanged, so base, query(q), count(n) flattens to the query     *)
(* stage's configuration for q followed by count = n.                      *)
C12_FlattenKeepsFields == [][C12_Step]_vars

C12_Witness ==
    /\ lastOp.name = "RandomQueryCount::get"
    /\ lastSet.w = Some(100)
    /\ lastSet.h = Some(50)
    /\ lastSet.featured = Some(FALSE)
    /\ FieldOf(Unwrap(config), "w") = Some(100)
    /\ FieldOf(Unwrap(config), "count") = Some(2)

C13_Step ==
    lastOp'.name \in RandomGets =>
        LET c == Unwrap(config')
            uri == Unwrap(outbound').uri
        IN  IF stage \in CountedStages
              THEN /\ schema' = "Vec<Photo>"
                   /\ IsSome(FieldOf(c, "count"))
                   /\ HasParam(uri, "count")
              ELSE /\ schema' = "Photo"
                   /\ FieldOf(c, "count") = None
                   /\ ~HasParam(uri, "count")

(* C13: the success type get asks for is decided by the stage alone: a     *)
(* single photo on the base, query and collection stages, which send no    *)
(* count, and a list of photos on the three counted stages, which always   *)
(* send a count.                                                           *)
C13_SchemaByStage == [][C13_Step]_vars

C13_Witness ==
    /\ lastOp.name = "RandomCount::get"
    /\ schema = "Vec<Photo>"
    /\ HasParam(Unwrap(outbound).uri, "count")

-----------------------------------------------------------------------------
(* The query fragment, checked under Spec on the request that was sent. *)

(* The pieces the dispatcher appended to the URI it was given. *)
Fragment ==
    LET uri == Unwrap(outbound).uri
        given == IF lastOp.name = "List::get" THEN LIST_URI ELSE RANDOM_URI
    IN  SubSeq(uri, Len(given) + 1, Len(uri))

Positions(text, piece) == {i \in 1..Len(text) : text[i] = piece}

Nth(S, k) == CHOOSE i \in S : Cardinality({j \in S : j < i}) = k - 1

PresentFields(cfg) == SelectSeq(cfg, LAMBDA f : IsSome(f.opt))

(* count of RandomCountSerialize is the one field that is not an Option. *)
OptionalFields(cfg) == SelectSeq(cfg, LAMBDA f : f.key # "count")

(* The fragment is the separator and one key=value per present field, in   *)
(* the order of the fields, with an ampersand between two pairs.           *)
PairsInOrder(cfg, frag) ==
    LET present == PresentFields(cfg)
        n == Len(present)
        eqs == Positions(frag, "=")
        amps == Positions(frag, "&")
    IN  /\ Positions(frag, "?") = {1}
        /\ Cardinality(eqs) = n
        /\ Cardinality(amps) = n - 1
        /\ \A k \in 1..n :
              LET first == IF k = 1 THEN 2 ELSE Nth(amps, k - 1) + 1
                  last == IF k = n THEN Len(frag) ELSE Nth(amps, k) - 1
              IN  /\ frag[first] = present[k].key
                  /\ Nth(eqs, k) = first + 1
                  /\ SubSeq(frag, first + 2, last) =
                        SerValue(present[k].type, Unwrap(present[k].opt))

FeaturedLandscape ==
    RandomSerialize(Some(TRUE), None, None, None, Some("Landscape"), None, None)

C14_Example ==
    config = Some(FeaturedLandscape) =>
        Fragment = <<"?", "featured", "=", "true", "&",
                     "orientation", "=", "Landscape">>

(* C14 as stated: the fragment is empty when every optional field is       *)
(* absent, and otherwise the separator and the pairs of the present        *)
(* fields in declaration order.                                            *)
C14_EmptyWhenOptionalsAbsent ==
    IsSome(config) =>
        /\ IF PresentFields(OptionalFields(Unwrap(config))) = <<>>
             THEN Fragment = <<>>
             ELSE PairsInOrder(Unwrap(config), Fragment)
        /\ C14_Example

(* C14, amended: to_query returns the empty string when no field of the    *)
(* value is present, and otherwise '?' followed by one key=value pair per  *)
(* present field, joined by '&', in declaration order; the count of a      *)
(* counted configuration is always present, so its fragment is never       *)
(* empty.                                                                  *)
C14_EmptyWhenNothingPresent ==
    IsSome(config) =>
        /\ IF PresentFields(Unwrap(config)) = <<>>
             THEN Fragment = <<>>
             ELSE PairsInOrder(Unwrap(config), Fragment)
        /\ FieldOf(Unwrap(config), "count") # None => Fragment # <<>>
        /\ C14_Example

C14_Witness ==
    /\ lastOp.name = "Random::get"
    /\ config = Some(FeaturedLandscape)
    /\ Fragment = <<"?", "featured", "=", "true", "&",
                    "orientation", "=", "Landscape">>

-----------------------------------------------------------------------------
(* The scenario random, query("cats"), count(3), get, checked under Spec. *)

Contains(text, sub) ==
    \E i \in 1..(Len(text) - Len(sub) + 1) :
        SubSeq(text, i, i + Len(sub) - 1) = sub

Cats == <<"c", "a", "t", "s">>

CatsThree == <<"query", "=", "c", "a", "t", "s", "&", "count", "=", "3">>

C15_Step ==
    /\ lastOp'.name = "RandomQueryCount::get"
    /\ builder.rand.query = Cats
    /\ builder.count = 3
    => /\ sends = 0 /\ sends' = 1
       /\ Unwrap(outbound').method = "GET"
       /\ SubSeq(Unwrap(outbound').uri, 1, Len(RANDOM_URI)) = RANDOM_URI
       /\ Contains(Unwrap(outbound').uri, CatsThree)
       /\ ~HasParam(Unwrap(outbound').uri, "collection")
       /\ schema' = "Vec<Photo>"
       /\ builder.rand.rand = Random_default =>
             Unwrap(outbound').uri = RANDOM_URI \o <<"?">> \o CatsThree

(* C15: random, query("cats"), count(3), get sends exactly one GET request *)
(* to the random-photo URI; its fragment holds query=cats immediately      *)
(* followed by &count=3 and no collection parameter, and a list of photos  *)
(* is expected.                                                            *)
C15_CatsThree == [][C15_Step]_vars /\ [](sends <= 1)

C15_Witness ==
    /\ lastOp.name = "RandomQueryCount::get"
    /\ lastSet = Random_default
    /\ sends = 1
    /\ Unwrap(outbound).method = "GET"
    /\ Unwrap(outbound).uri = RANDOM_URI \o <<"?">> \o CatsThree
    /\ schema = "Vec<Photo>"

-----------------------------------------------------------------------------
(* Properties of one dispatch, checked under SpecDispatch. *)

Calls == {"get", "put", "delete", "post"}

MethodOf(name) ==
    CASE name = "get" -> "GET"
      [] name = "put" -> "PUT"
      [] name = "delete" -> "DELETE"
      [] name = "post" -> "POST"

C16_Step ==
    lastOp'.name \in Calls =>
        LET in == lastOp'.arg
            req == Unwrap(outbound')
            rest == SubSeq(req.uri, Len(in.uri) + 1, Len(req.uri))
        IN  /\ req.method = MethodOf(lastOp'.name)
            /\ SubSeq(req.uri, 1, Len(in.uri)) = in.uri
            /\ IF PresentFields(in.query) = <<>>
                 THEN rest = <<>>
                 ELSE PairsInOrder(in.query, rest)
            /\ req.headers = << <<"Accept", "application/json">>,
                                <<"Accept-Version", "v1">>,
                                <<"Authorization", in.auth>> >>
            /\ req.body = <<>>
            /\ DOMAIN req = {"method", "uri", "headers", "body"}
            /\ schema' = in.R
            /\ config' = Some(in.query)
            /\ pc' = "sent"
            /\ UNCHANGED dispatchVars

(* C16: the request a specialization builds has the method of that         *)
(* specialization, the given URI followed by the encoded fragment, the     *)
(* headers Accept: application/json, Accept-Version: v1 and Authorization  *)
(* with the auth string as given, and an empty body; apart from the method *)
(* the four specializations do the same.                                   *)
C16_RequestAsBuilt == [][C16_Step]_vars

C16_Witness ==
    /\ lastOp.name = "put"
    /\ lastOp.arg.auth = <<"Bearer ", "t1">>
    /\ Unwrap(outbound).method = "PUT"
    /\ Unwrap(outbound).headers[3] = <<"Authorization", <<"Bearer ", "t1">>>>
    /\ Contains(Unwrap(outbound).uri, CatsThree)

Failed == IsSome(result) /\ ~Unwrap(result).ok

C17_Step ==
    /\ sends' <= 1
    /\ sends' # sends => pc = "start" /\ lastOp'.name \in Calls
    /\ pc # "start" => outbound' = outbound
    /\ result' # result => result = None /\ pc' = "done" /\ sends' = sends
    /\ Failed => UNCHANGED <<result, sends, outbound, pc>>

(* C17: one dispatch asks the transport to send at most one request, and a *)
(* failure of the transport, of the body stream, of the decoding or a      *)
(* non-success status completes the dispatch with that error: nothing is   *)
(* sent again.                                                             *)
C17_NoRetry == [][C17_Step]_vars /\ [](Failed => pc = "done" /\ sends = 1)

C17_Witness ==
    /\ Failed
    /\ lastOp.name = "body end"
    /\ status = Some(200)
    /\ sends = 1
    /\ pc = "done"

C18_Step ==
    pc = "dropped" => UNCHANGED <<pc, status, parser, buf, chunks, parsed, result>>

C18_Dropped ==
    pc = "dropped" =>
        /\ lastOp.name = "drop"
        /\ parsed = <<>>
        /\ result = None
        /\ lastOp.arg = "sent" => parser = None /\ status = None

(* C18: once the future is dropped, before the response arrived or while   *)
(* chunks were accumulated, the parser selection, parse_data, parse_err    *)
(* and the forbidden re-tag are not run for that dispatch.                 *)
C18_DropRunsNothing == [][C18_Step]_vars /\ []C18_Dropped

C18_Witness ==
    /\ pc = "dropped"
    /\ lastOp = Op("drop", "body")
    /\ status = Some(FORBIDDEN)
    /\ buf = ErrorListBody
    /\ parsed = <<>>
    /\ result = None

-----------------------------------------------------------------------------
(* The setters of the base stage, checked under Spec. *)

FieldOfSetter(name) ==
    CASE name = "Random::featured" -> "featured"
      [] name = "Random::username" -> "username"
      [] name = "Random::w" -> "w"
      [] name = "Random::h" -> "h"
      [] name = "Random::orientation" -> "orientation"

C20_Step ==
    lastOp'.name \in Setters =>
        /\ stage = "Random" /\ stage' = "Random"
        /\ ~panicked'
        /\ builder'[FieldOfSetter(lastOp'.name)] = Some(lastOp'.arg)
        /\ \A g \in BaseFields \ {FieldOfSetter(lastOp'.name)} :
              builder'[g] = builder[g]

C20_SettersEnabled ==
    stage = "Random" /\ ~panicked =>
        /\ \A feat \in Bools : ENABLED Random_featured(feat)
        /\ \A username \in Usernames : ENABLED Random_username(username)
        /\ \A w \in Widths : ENABLED Random_w(w)
        /\ \A h \in Heights : ENABLED Random_h(h)
        /\ \A orientation \in Orientations :
              ENABLED Random_orientation(orientation)

(* C20: on the base stage every setter can be applied in any order and any *)
(* number of times; it stays on the base stage, sets its own field to the  *)
(* argument, overwriting an earlier value, and leaves the other four       *)
(* fields unchanged, so each field holds the argument of the last call of  *)
(* its setter, or is absent when that setter was never called.             *)
C20_SettersOverwrite ==
    /\ [][C20_Step]_vars
    /\ [](stage = "Random" => builder = lastSet)
    /\ []C20_SettersEnabled

C20_Witness ==
    /\ stage = "Random"
    /\ lastOp = Op("Random::orientation", "Portrait")
    /\ builder = [featured |-> Some(FALSE), username |-> None,
                  w |-> Some(100), h |-> None,
                  orientation |-> Some("Portrait")]

-----------------------------------------------------------------------------
(* Independence of the dispatches in flight, checked under SpecConcurrent. *)

RECURSIVE Flatten(_)
Flatten(cs) == IF cs = <<>> THEN <<>> ELSE Head(cs) \o Flatten(Tail(cs))

(* The outcome of one dispatch from what it was given alone: its success   *)
(* type, its status, its chunks and how its stream ended.                  *)
Alone(R, s, cs, ending) ==
    CASE ending = "transport error" ->
            Err(context(HyperError("request"), "Request"))
      [] ending = "body error" ->
            IF Unwrap(s) = FORBIDDEN
              THEN Err(context(context(HyperError("body"), "MalformedResponse"),
                               "Forbidden"))
              ELSE Err(context(HyperError("body"), "MalformedResponse"))
      [] ending = "body end" ->
            LET body == Flatten(cs)
                r == IF Unwrap(s) \in SuccessRange
                       THEN parse_data(R, body)
                       ELSE parse_err(body)
            IN  IF ~r.ok /\ Unwrap(s) = FORBIDDEN
                  THEN Err(context(r.error, "Forbidden"))
                  ELSE r

FlightState(i) ==
    <<pc[i], outbound[i], config[i], schema[i], sends[i], status[i],
      parser[i], buf[i], chunks[i], parsed[i], result[i], lastOp[i]>>

C19_Step ==
    Cardinality({i \in FlightIds : FlightState(i)' # FlightState(i)}) <= 1

C19_Own(i) ==
    /\ buf[i] = Flatten(chunks[i])
    /\ sends[i] <= 1
    /\ IF pc[i] = "done"
         THEN result[i] =
                 Some(Alone(schema[i], status[i], chunks[i], lastOp[i].name))
         ELSE result[i] = None

(* C19: with several dispatches in flight and their responses and chunks   *)
(* interleaved in any way, a step of one dispatch changes nothing of       *)
(* another, the buffer of each dispatch is the concatenation of its own    *)
(* chunks, and its result is what its own success type, status and body    *)
(* give when it runs alone.                                                *)
C19_Independent == [][C19_Step]_vars /\ [](\A i \in FlightIds : C19_Own(i))

C19_Witness ==
    /\ pc["a"] = "done"
    /\ schema["a"] = "Url"
    /\ status["a"] = Some(200)
    /\ chunks["a"] = << <<"[">>, <<"\"", "e", "\"", "]">> >>
    /\ result["a"] = Some(Ok([url |-> <<"e">>]))
    /\ pc["b"] = "body"
    /\ status["b"] = Some(FORBIDDEN)
    /\ buf["b"] = <<"[", "[">>

-----------------------------------------------------------------------------
(* The parser selection, the buffer and the forbidden kind, checked under  *)
(* SpecDispatch.                                                           *)

ByStatus(s) == IF s \in SuccessRange THEN "parse_data" ELSE "parse_err"

C21_Step ==
    /\ parser' # parser =>
          /\ parser = None
          /\ lastOp'.name = "response"
          /\ chunks = <<>> /\ buf = <<>>
          /\ chunks' = <<>> /\ buf' = <<>>
          /\ parser' = Some(ByStatus(lastOp'.arg))
    /\ status' # status => status = None /\ lastOp'.name = "response"

C21_Selected ==
    /\ IsSome(parser) <=> IsSome(status)
    /\ IsSome(parser) => parser = Some(ByStatus(Unwrap(status)))
    /\ chunks # <<>> => IsSome(parser)
    /\ \A k \in 1..Len(parsed) : parsed[k].parser = ByStatus(Unwrap(status))

(* C21: the parser, parse_data for the success type or parse_err for the   *)
(* error list, is selected once, from the status alone, when the response  *)
(* arrives and before any chunk is read; it is never selected again, so    *)
(* the parser that runs depends on the status and not on the body.         *)
C21_ParserByStatusOnce == [][C21_Step]_vars /\ []C21_Selected

C21_Witness ==
    /\ BodyEnded
    /\ status = Some(404)
    /\ buf = UrlBody
    /\ parsed = << [parser |-> "parse_err", input |-> UrlBody] >>

C22_Step ==
    /\ lastOp'.name = "chunk" =>
          /\ chunks' = Append(chunks, lastOp'.arg)
          /\ buf' = buf \o lastOp'.arg
          /\ parsed = <<>> /\ parsed' = <<>>
    /\ parsed' # parsed =>
          /\ parsed = <<>>
          /\ lastOp'.name = "body end"
          /\ parsed' = << [parser |-> Unwrap(parser), input |-> Flatten(chunks)] >>
          /\ UNCHANGED <<buf, chunks>>
    /\ parsed # <<>> => UNCHANGED <<buf, chunks, parsed>>

C22_Whole ==
    /\ buf = Flatten(chunks)
    /\ Len(parsed) <= 1
    /\ BodyEnded <=> Len(parsed) = 1
    /\ pc = "body" => parsed = <<>>
    /\ BodyBroke => parsed = <<>>

(* C22: when the body stream delivers chunks and then ends without error,  *)
(* the buffer handed to the selected parser is the concatenation of the    *)
(* chunks in arrival order, and the parser runs exactly once, after the    *)
(* last chunk was appended and never on a prefix.                          *)
C22_ParserGetsWholeBody == [][C22_Step]_vars /\ []C22_Whole

C22_Witness ==
    /\ BodyEnded
    /\ chunks = << <<"[">>, <<"\"", "e", "\"">>, <<"]">> >>
    /\ Len(parsed) = 1
    /\ parsed[1].input = ErrorListBody

IsForbidden == ~Unwrap(result).ok /\ kind(Unwrap(result).error) = "Forbidden"

(* C23: a dispatch completes with an error of kind Forbidden exactly when  *)
(* a response was obtained and its status is 403: a transport failure and  *)
(* a response of any other status never give Forbidden, and a response     *)
(* with status 403 always does, also when its body stream breaks.          *)
C23_ForbiddenIff403 ==
    Completed =>
        /\ IsForbidden <=> GotResponse /\ status = Some(403)
        /\ lastOp.name = "transport error" => ~GotResponse /\ ~IsForbidden
        /\ BodyBroke /\ status = Some(403) => IsForbidden

C23_Witness ==
    /\ BodyBroke
    /\ status = Some(403)
    /\ chunks = << <<"[">> >>
    /\ IsForbidden

-----------------------------------------------------------------------------
(* The authorization of the random-photo gets, checked under Spec. *)

AuthorizationOf(req) == req.headers[3][2]

C24_Step ==
    lastOp'.name \in RandomGets =>
        /\ Unwrap(outbound').headers[3][1] = "Authorization"
        /\ AuthorizationOf(Unwrap(outbound')) = <<"Client-ID: ", lastOp'.arg>>

(* C24: for an access key k, get on each of the six random-photo stages    *)
(* sends the Authorization header "Client-ID: " followed by k.             *)
C24_ClientIdOnEveryStage == [][C24_Step]_vars

=============================================================================
